---- MODULE Spec2Model ----
(***************************************************************************)
(* Model of ai/models/pytorch/functional/classification/resnet.py:         *)
(* the ResNet classifier whose output layer follows a label-class map      *)
(* (updateModel), its checkpoints (getStateDict / loadFromStateDict) and   *)
(* the averaging of checkpoints (averageStateDicts, averageEpochs).        *)
(*                                                                         *)
(* Python objects live on a heap: dicts, models and checkpoints are held   *)
(* in sequences and referred to by their position, so that two references  *)
(* to one dict (self.labelclassMap = labelclassMap) are one object here.   *)
(*                                                                         *)
(* Tensors are records [shape, data].  shape is the torch shape; data      *)
(* holds one representative element per index of the first dimension for   *)
(* the classifier's weight and bias (one per output neuron) and a single   *)
(* representative element for a feature-extractor tensor.  Every tensor    *)
(* operation of the source is elementwise or row-wise, so it acts on data  *)
(* as it acts on the whole tensor.  Elements are exact rationals <<n, d>>  *)
(* (d > 0, lowest terms); floating-point rounding is not modelled.         *)
(***************************************************************************)
EXTENDS Integers, Sequences, FiniteSets, TLC

\* ------------------------------------------------------------------ bounds
MaxModels == 2
MaxCkpts == 2
MaxAverages == 1
MaxListLen == 2

Names == {"cat", "dog", "bird"}

\* ------------------------------------------------------------- rationals
Abs(x) == IF x < 0 THEN -x ELSE x

RECURSIVE GCD(_, _)
GCD(a, b) == IF b = 0 THEN a ELSE GCD(b, a % b)

Norm(q) ==
    LET g == GCD(Abs(q[1]), q[2])
    IN  <<q[1] \div g, q[2] \div g>>

Rat(n) == <<n, 1>>
RAdd(p, q) == Norm(<<p[1] * q[2] + q[1] * p[2], p[2] * q[2]>>)
RDiv(p, k) == Norm(<<p[1], p[2] * k>>)

\* ---------------------------------------------------------------- tensors
Tensor(shape, data) == [shape |-> shape, data |-> data]

\* the values a random initialisation gives an n-element tensor
Fill(seed, n) == [i \in 1..n |-> Rat(seed + 2 * (i - 1))]

\* a slicing that is off by one: t[0:classIdx-1] and t[classIdx:]
DropRowBefore(t, classIdx) ==
    LET n    == Len(t.data)
        gone == IF classIdx = 0 THEN 1 ELSE classIdx
        keep == SelectSeq([i \in 1..n |-> i], LAMBDA i : i # gone)
    IN  Tensor([t.shape EXCEPT ![1] = Len(keep)],
               [j \in 1..Len(keep) |-> t.data[keep[j]]])

\* torch.cat((t[0:classIdx], t[(classIdx+1):]), 0), classIdx counted from 0
DropRow(t, classIdx) ==
    LET n    == Len(t.data)
        keep == SelectSeq([i \in 1..n |-> i], LAMBDA i : i # classIdx + 1)
    IN  Tensor([t.shape EXCEPT ![1] = Len(keep)],
               [j \in 1..Len(keep) |-> t.data[keep[j]]])

\* self += other is defined iff other broadcasts to the shape of self
AddInPlaceOK(self, other) ==
    /\ Len(other.shape) = Len(self.shape)
    /\ \A i \in 1..Len(self.shape) :
           other.shape[i] = self.shape[i] \/ other.shape[i] = 1

AddInPlace(self, other) ==
    Tensor(self.shape,
           [i \in 1..Len(self.data) |->
               RAdd(self.data[i],
                    IF Len(other.data) = Len(self.data) THEN other.data[i]
                    ELSE other.data[1])])

DivTensor(t, k) == Tensor(t.shape, [i \in 1..Len(t.data) |-> RDiv(t.data[i], k)])

\* ------------------------------------------------- architecture (l. 13-35)
in_features ==
    [resnet18 |-> 512, resnet34 |-> 512, resnet50 |-> 2048,
     resnet101 |-> 2048, resnet152 |-> 2048]

\* Representative parameters of the torchvision backbone kept in self.fe:
\* resnet34 has every parameter of resnet18, with the same shapes, and more
\* blocks; the bottleneck networks have other shapes and a third convolution.
FeParamShapes(featureExtractor) ==
    CASE featureExtractor = "resnet18" ->
           ("fe.4.0.conv1.weight" :> <<64, 64, 3, 3>>)
      [] featureExtractor = "resnet34" ->
           ("fe.4.0.conv1.weight" :> <<64, 64, 3, 3>>) @@
           ("fe.4.2.conv1.weight" :> <<64, 64, 3, 3>>)
      [] OTHER ->
           ("fe.4.0.conv1.weight" :> <<64, 64, 1, 1>>) @@
           ("fe.4.0.conv3.weight" :> <<256, 64, 1, 1>>)

\* Batch-norm running statistics: in state_dict(), not in named_parameters()
FeBufferShapes(featureExtractor) == ("fe.1.running_mean" :> <<64>>)

\* ------------------------------------------------------------------ state
VARIABLES
    dicts,     \* heap of label-class dicts: Seq of functions name -> index
    models,    \* heap of ResNet instances
    ckpts,     \* heap of stateDict records
    call,      \* the updateModel call in progress, or the last one returned
    avg,       \* the averaging call that has just ended, if any
    ret,       \* the operation that ended last and how it ended
    nAvg       \* number of averaging calls that returned so far

vars == <<dicts, models, ckpts, call, avg, ret, nAvg>>

EmptyDict == [n \in {} |-> 0]
NoTensor == Tensor(<<>>, <<>>)

Keys(d) == DOMAIN d
Values(d) == {d[k] : k \in DOMAIN d}

\* ----------------------------------------------------- __init__ (l. 21-35)
\* seed stands for the random initialisation of nn.Linear and, when
\* pretrained is False, of the backbone; pretrained weights are fixed.
NewModel(heap, labelclassMap, featureExtractor, pretrained, seed) ==
    LET n  == Cardinality(Keys(heap[labelclassMap]))
        fp == FeParamShapes(featureExtractor)
        fb == FeBufferShapes(featureExtractor)
        v  == IF pretrained THEN 2 ELSE seed
    IN  [labelclassMap    |-> labelclassMap,
         featureExtractor |-> featureExtractor,
         pretrained       |-> pretrained,
         params  |-> [k \in DOMAIN fp |-> Tensor(fp[k], <<Rat(v)>>)] @@
                     ("classifier.weight" :>
                          Tensor(<<n, in_features[featureExtractor]>>, Fill(seed, n))) @@
                     ("classifier.bias" :> Tensor(<<n>>, Fill(seed + 1, n))),
         buffers |-> [k \in DOMAIN fb |-> Tensor(fb[k], <<Rat(v)>>)]]

\* nn.Module.state_dict(): parameters and buffers
StateDictOf(model) == model.params @@ model.buffers

\* ------------------------------------------------- getStateDict (l. 38-45)
\* The record holds the model's own dict object, not a copy of it.
StateDictRecord(model) ==
    [model_state      |-> StateDictOf(model),
     labelclassMap    |-> model.labelclassMap,
     featureExtractor |-> model.featureExtractor,
     pretrained       |-> model.pretrained]

\* ------------------------------------------- loadFromStateDict (l. 124-136)
\* nn.Module.load_state_dict(state), strict: the names and the shapes of
\* state must be those of the module, else it raises
LoadStateDictOK(model, state) ==
    /\ DOMAIN state = DOMAIN StateDictOf(model)
    /\ \A k \in DOMAIN state : state[k].shape = StateDictOf(model)[k].shape

LoadStateDict(model, state) ==
    [model EXCEPT !.params  = [k \in DOMAIN model.params |-> state[k]],
                  !.buffers = [k \in DOMAIN model.buffers |-> state[k]]]

\* l. 30, 34: getattr(resnet, featureExtractor) raises AttributeError for a
\* name torchvision.models.resnet does not have, and in_features[...] raises
\* KeyError for a name it has that is not in the table (resnext50_32x4d)
InitOK(featureExtractor) == featureExtractor \in DOMAIN in_features

\* d[key] if key in d else default
Get(d, key, default) == IF key \in DOMAIN d THEN d[key] ELSE default

\* the seeds of the random initialisation of a new model
Seeds == {1, 3}

\* the default of l. 128 taken to be 'resnet18'
LoadFromStateDictDefault18(heap, stateDict, seed) ==
    LET featureExtractor == Get(stateDict, "featureExtractor", "resnet18")
        pretrained == Get(stateDict, "pretrained", TRUE)
    IN  IF "labelclassMap" \notin DOMAIN stateDict \/ ~InitOK(featureExtractor)
        THEN [ok |-> FALSE, model |-> 0]
        ELSE LET model == NewModel(heap, stateDict.labelclassMap,
                                   featureExtractor, pretrained, seed)
             IN  IF "model_state" \notin DOMAIN stateDict
                 THEN [ok |-> TRUE, model |-> model]
                 ELSE IF LoadStateDictOK(model, stateDict.model_state)
                 THEN [ok |-> TRUE, model |-> LoadStateDict(model, stateDict.model_state)]
                 ELSE [ok |-> FALSE, model |-> model]

\* l. 127-136 with the new model initialised from seed: whether the call
\* returns, and the model it returns.  A record is a dict that need not have
\* every field: 'labelclassMap' is read unconditionally (KeyError without
\* it), the other three have defaults.
LoadFromStateDictSeeded(heap, stateDict, seed) ==
    LET featureExtractor == Get(stateDict, "featureExtractor", "resnet50")
        pretrained == Get(stateDict, "pretrained", TRUE)
    IN  IF "labelclassMap" \notin DOMAIN stateDict \/ ~InitOK(featureExtractor)
        THEN [ok |-> FALSE, model |-> 0]
        ELSE LET model == NewModel(heap, stateDict.labelclassMap,
                                   featureExtractor, pretrained, seed)
             IN  IF "model_state" \notin DOMAIN stateDict
                 THEN [ok |-> TRUE, model |-> model]
                 ELSE IF LoadStateDictOK(model, stateDict.model_state)
                 THEN [ok |-> TRUE, model |-> LoadStateDict(model, stateDict.model_state)]
                 ELSE [ok |-> FALSE, model |-> model]

\* A successful load of a record with a model_state overwrites every initial
\* value of the new model, so the seed of its initialisation does not show
\* in the result.
AnySeed == CHOOSE s \in Seeds : TRUE

LoadFromStateDict(heap, stateDict) == LoadFromStateDictSeeded(heap, stateDict, AnySeed)

\* ------------------------------------------ averageStateDicts (l. 139-154)
\* l. 148-149: for key in state: pars[key] += state[key]
AccumulateOK(pars, state) ==
    \A key \in DOMAIN state :
        key \in DOMAIN pars /\ AddInPlaceOK(pars[key], state[key])

Accumulate(pars, state) ==
    [key \in DOMAIN pars |->
        IF key \in DOMAIN state THEN AddInPlace(pars[key], state[key])
        ELSE pars[key]]

\* l. 145-149 from snapshot number s on
RECURSIVE SumFrom(_, _, _, _, _)
SumFrom(heap, cs, stateDicts, pars, s) ==
    IF s > Len(stateDicts) THEN [ok |-> TRUE, pars |-> pars]
    ELSE LET nextModel == LoadFromStateDict(heap, cs[stateDicts[s]])
         IN  IF nextModel.ok /\ AccumulateOK(pars, nextModel.model.params)
             THEN SumFrom(heap, cs, stateDicts,
                          Accumulate(pars, nextModel.model.params), s + 1)
             ELSE [ok |-> FALSE, pars |-> pars]

\* the sums stored without the division by the number of records
FinalStateUndivided(finalState, pars, k) ==
    [finalState EXCEPT !.model_state =
        [key \in DOMAIN finalState.model_state \cup DOMAIN pars |->
            IF key \in DOMAIN pars THEN pars[key]
            ELSE finalState.model_state[key]]]

\* l. 150-152: the last record of the list receives the means, in place
FinalState(finalState, pars, k) ==
    [finalState EXCEPT !.model_state =
        [key \in DOMAIN finalState.model_state \cup DOMAIN pars |->
            IF key \in DOMAIN pars THEN DivTensor(pars[key], k)
            ELSE finalState.model_state[key]]]

\* the means written into the first record of the list, which is returned
AverageStateDictsIntoFirst(heap, cs, stateDicts) ==
    IF stateDicts = <<>> THEN [ok |-> FALSE, ckpts |-> cs, result |-> 0]
    ELSE LET model == LoadFromStateDict(heap, cs[stateDicts[1]])
             sum   == SumFrom(heap, cs, stateDicts, model.model.params, 2)
             first == stateDicts[1]
         IN  IF model.ok /\ sum.ok
             THEN [ok |-> TRUE,
                   ckpts |-> [cs EXCEPT ![first] =
                                 FinalState(cs[first], sum.pars, Len(stateDicts))],
                   result |-> first]
             ELSE [ok |-> FALSE, ckpts |-> cs, result |-> 0]

\* The whole call on the list stateDicts of positions in the heap cs:
\* whether it returns, the heap of records after it and the position of
\* the record it returns (l. 150, 154: stateDicts[-1])
AverageStateDicts(heap, cs, stateDicts) ==
    IF stateDicts = <<>> THEN [ok |-> FALSE, ckpts |-> cs, result |-> 0]
    ELSE LET model == LoadFromStateDict(heap, cs[stateDicts[1]])
             sum   == SumFrom(heap, cs, stateDicts, model.model.params, 2)
             last  == stateDicts[Len(stateDicts)]
         IN  IF model.ok /\ sum.ok
             THEN [ok |-> TRUE,
                   ckpts |-> [cs EXCEPT ![last] =
                                 FinalState(cs[last], sum.pars, Len(stateDicts))],
                   result |-> last]
             ELSE [ok |-> FALSE, ckpts |-> cs, result |-> 0]

\* ---------------------------------------------- averageEpochs (l. 157-179)
\* torch.load(path): the record saved at path is unpickled into new objects,
\* so the record read has a dict of its own with the contents saved.  The
\* file at path holds the record cs[path] as it is.
TorchLoad(heap, cs, path) ==
    [heap      |-> Append(heap, heap[cs[path].labelclassMap]),
     stateDict |-> [cs[path] EXCEPT !.labelclassMap = Len(heap) + 1]]

\* l. 159-160: a single path given as a str is a list of one path
StatePathsOf(arg) == IF arg.isStr THEN <<arg.path>> ELSE arg.list

RECURSIVE SumEpochs(_, _, _, _, _)
\* l. 168-172 from path number s on
SumEpochs(heap, cs, statePaths, pars, s) ==
    IF s > Len(statePaths) THEN [ok |-> TRUE, pars |-> pars, heap |-> heap]
    ELSE LET file  == TorchLoad(heap, cs, statePaths[s])
             model == LoadFromStateDict(file.heap, file.stateDict)
         IN  IF model.ok /\ AccumulateOK(pars, model.model.params)
             THEN SumEpochs(file.heap, cs, statePaths,
                            Accumulate(pars, model.model.params), s + 1)
             ELSE [ok |-> FALSE, pars |-> pars, heap |-> heap]

\* the means written into the record of the first file, not of the last
AverageEpochsFirstFile(heap, cs, statePaths) ==
    LET raise == [ok |-> FALSE, heap |-> heap, model |-> 0]
    IN  IF statePaths = <<>> THEN raise
        ELSE LET first == TorchLoad(heap, cs, statePaths[1])
                 model == LoadFromStateDict(first.heap, first.stateDict)
             IN  IF ~model.ok THEN raise
                 ELSE IF Len(statePaths) = 1
                 THEN [ok |-> TRUE, heap |-> first.heap, model |-> model.model]
                 ELSE LET sum  == SumEpochs(first.heap, cs, statePaths,
                                            model.model.params, 2)
                          last == TorchLoad(sum.heap, cs, statePaths[1])
                          finalState == FinalState(last.stateDict, sum.pars,
                                                   Len(statePaths))
                          result == LoadFromStateDict(last.heap, finalState)
                      IN  IF sum.ok /\ result.ok
                          THEN [ok |-> TRUE, heap |-> last.heap, model |-> result.model]
                          ELSE raise

\* The whole call on the list statePaths: whether it returns, the model it
\* returns and the heap of dicts with the dicts the loads have made
AverageEpochs(heap, cs, statePaths) ==
    LET raise == [ok |-> FALSE, heap |-> heap, model |-> 0]
    IN  IF statePaths = <<>> THEN raise
        ELSE LET first == TorchLoad(heap, cs, statePaths[1])
                 model == LoadFromStateDict(first.heap, first.stateDict)
             IN  IF ~model.ok THEN raise
                 ELSE IF Len(statePaths) = 1
                 THEN [ok |-> TRUE, heap |-> first.heap, model |-> model.model]
                 ELSE LET sum  == SumEpochs(first.heap, cs, statePaths,
                                            model.model.params, 2)
                          last == TorchLoad(sum.heap, cs, statePaths[Len(statePaths)])
                          finalState == FinalState(last.stateDict, sum.pars,
                                                   Len(statePaths))
                          result == LoadFromStateDict(last.heap, finalState)
                      IN  IF sum.ok /\ result.ok
                          THEN [ok |-> TRUE, heap |-> last.heap, model |-> result.model]
                          ELSE raise

\* ---------------------------------------------------------- call records
IdleCall ==
    [pc |-> "idle", self |-> 0, labelClasses |-> {},
     addMissing |-> FALSE, removeObsolete |-> FALSE,
     classes_missing |-> {}, classes_obsolete |-> {}, todo |-> {},
     weights |-> NoTensor, biases |-> NoTensor,
     preMap |-> EmptyDict, preWeight |-> NoTensor, preBias |-> NoTensor,
     repeated |-> FALSE, firstMap |-> EmptyDict]

NoAvg ==
    [called |-> FALSE, stateDicts |-> <<>>, pre |-> <<>>, ok |-> FALSE, result |-> 0]

Ret(op, outcome) == [op |-> op, outcome |-> outcome]

Idle == call.pc = "idle"

\* The dicts a caller builds number a set of class names 0..N-1.  Class names
\* are interchangeable, so the callers here number them in one fixed order.
NameOrder == <<"cat", "dog", "bird">>
PrefixDict(n) == [c \in {NameOrder[i] : i \in 1..n} |->
                     (CHOOSE i \in 1..n : NameOrder[i] = c) - 1]

\* the arguments <<labelclassMap, featureExtractor, pretrained>> callers
\* construct with, each followed by the seed of the random initialisation
SurgeryInputs == {<<PrefixDict(n), "resnet18", TRUE, 1>> : n \in 0..3}
AverageInputs ==
    {<<PrefixDict(2), "resnet18", TRUE, 1>>, <<PrefixDict(2), "resnet18", FALSE, 3>>,
     <<PrefixDict(1), "resnet18", TRUE, 1>>, <<PrefixDict(2), "resnet34", TRUE, 3>>}

\* lists of positions of records, as a caller passes them to the averaging
ListsOver(S, n) == UNION {[1..k -> S] : k \in 0..n}

Init ==
    /\ dicts = <<>>
    /\ models = <<>>
    /\ ckpts = <<>>
    /\ call = IdleCall
    /\ avg = NoAvg
    /\ ret = Ret("none", "none")
    /\ nAvg = 0

\* ------------------------------------------------------------- operations
\* ResNet(labelclassMap, featureExtractor, pretrained) on a dict built for it
ConstructOnNewDict(inputs) ==
    \E a \in inputs :
        /\ Idle
        /\ Len(models) < MaxModels
        /\ dicts' = Append(dicts, a[1])
        /\ models' = Append(models, NewModel(dicts', Len(dicts'), a[2], a[3], a[4]))
        /\ call' = IdleCall
        /\ avg' = NoAvg
        /\ ret' = Ret("__init__", "return")
        /\ UNCHANGED <<ckpts, nAvg>>

\* ResNet(labelclassMap, ...) on a dict another model or record already holds
ConstructOnSharedDict(inputs) ==
    \E d \in 1..Len(dicts), a \in inputs :
        /\ Idle
        /\ Len(models) < MaxModels
        /\ models' = Append(models, NewModel(dicts, d, a[2], a[3], a[4]))
        /\ call' = IdleCall
        /\ avg' = NoAvg
        /\ ret' = Ret("__init__", "return")
        /\ UNCHANGED <<dicts, ckpts, nAvg>>

GetStateDict(maxCkpts) ==
    \E m \in 1..Len(models) :
        /\ Idle
        /\ Len(ckpts) < maxCkpts
        /\ ckpts' = Append(ckpts, StateDictRecord(models[m]))
        /\ call' = IdleCall
        /\ avg' = NoAvg
        /\ ret' = Ret("getStateDict", "return")
        /\ UNCHANGED <<dicts, models, nAvg>>

\* loadFromStateDict on a record; ret keeps the record read and the model
\* returned
LoadModel ==
    \E c \in 1..Len(ckpts), seed \in Seeds :
        \E loaded \in {LoadFromStateDictSeeded(dicts, ckpts[c], seed)} :
            /\ Idle
            /\ Len(models) < MaxModels
            /\ models' = IF loaded.ok THEN Append(models, loaded.model) ELSE models
            /\ call' = IdleCall
            /\ avg' = NoAvg
            /\ ret' = [op |-> "loadFromStateDict",
                       outcome |-> IF loaded.ok THEN "return" ELSE "raise",
                       stateDict |-> c,
                       model |-> IF loaded.ok THEN Len(models) + 1 ELSE 0]
            /\ UNCHANGED <<dicts, ckpts, nAvg>>

\* A record that getStateDict did not make: one an older version saved
\* without some of the fields that have defaults (l. 128-130), or one whose
\* featureExtractor names another architecture
Identifiers == DOMAIN in_features \cup {"resnext50_32x4d", "vgg16"}

ForeignRecord ==
    \E c \in 1..Len(ckpts),
       absent \in SUBSET {"featureExtractor", "pretrained", "model_state"},
       featureExtractor \in Identifiers :
        LET named == IF "featureExtractor" \in DOMAIN ckpts[c]
                     THEN [ckpts[c] EXCEPT !.featureExtractor = featureExtractor]
                     ELSE ckpts[c]
        IN  /\ Idle
            /\ Len(ckpts) < MaxCkpts
            /\ DOMAIN ckpts[c] = {"model_state", "labelclassMap",
                                  "featureExtractor", "pretrained"}
            /\ ckpts' = Append(ckpts, [f \in DOMAIN named \ absent |-> named[f]])
            /\ call' = IdleCall
            /\ avg' = NoAvg
            /\ ret' = Ret("record", "return")
            /\ UNCHANGED <<dicts, models, nAvg>>

Average ==
    /\ Idle
    /\ nAvg < MaxAverages
    /\ \E stateDicts \in ListsOver(1..Len(ckpts), MaxListLen) :
         \E res \in {AverageStateDicts(dicts, ckpts, stateDicts)} :
            /\ ckpts' = res.ckpts
            /\ avg' = [called |-> TRUE, stateDicts |-> stateDicts,
                       pre |-> ckpts, ok |-> res.ok,
                       result |-> res.result]
            /\ nAvg' = IF res.ok THEN nAvg + 1 ELSE nAvg
            /\ call' = IdleCall
            /\ ret' = Ret("averageStateDicts", IF res.ok THEN "return" ELSE "raise")
            /\ UNCHANGED <<dicts, models>>

\* averageEpochs on the files that hold the records of ckpts; the argument
\* is a list of paths or one path as a str
EpochArgs ==
    {[isStr |-> TRUE, path |-> c, list |-> <<>>] : c \in 1..Len(ckpts)} \cup
    {[isStr |-> FALSE, path |-> 0, list |-> l] :
        l \in ListsOver(1..Len(ckpts), MaxListLen)}

AverageFromFiles ==
    /\ Idle
    /\ nAvg < MaxAverages
    /\ \E arg \in EpochArgs :
         \E res \in {AverageEpochs(dicts, ckpts, StatePathsOf(arg))} :
            /\ dicts' = IF res.ok THEN res.heap ELSE dicts
            /\ models' = IF res.ok THEN Append(models, res.model) ELSE models
            /\ avg' = [called |-> TRUE, stateDicts |-> StatePathsOf(arg),
                       pre |-> ckpts, ok |-> res.ok,
                       result |-> IF res.ok THEN Len(models) + 1 ELSE 0]
            /\ nAvg' = IF res.ok THEN nAvg + 1 ELSE nAvg
            /\ call' = IdleCall
            /\ ret' = Ret("averageEpochs", IF res.ok THEN "return" ELSE "raise")
            /\ UNCHANGED ckpts

\* ---------------------------------------------- updateModel (l. 48-121)
\* History: the call that begins has the arguments of a call with both
\* flags that has just returned on the same model, nothing in between
Repeats(self, labelClasses, addMissing, removeObsolete) ==
    /\ ret = Ret("updateModel", "return")
    /\ call.self = self
    /\ call.labelClasses = labelClasses
    /\ call.addMissing /\ addMissing
    /\ call.removeObsolete /\ removeObsolete

\* l. 63 with the difference taken from classes_missing, not classes_new
UpdateModelEnterWrongDifference ==
    \E self \in 1..Len(models), labelClasses \in SUBSET Names,
       addMissing \in BOOLEAN, removeObsolete \in BOOLEAN :
        LET current == Keys(dicts[models[self].labelclassMap])
            frame == [IdleCall EXCEPT
                        !.self = self,
                        !.labelClasses = labelClasses,
                        !.addMissing = addMissing,
                        !.removeObsolete = removeObsolete,
                        !.preMap = dicts[models[self].labelclassMap],
                        !.preWeight = models[self].params["classifier.weight"],
                        !.preBias = models[self].params["classifier.bias"],
                        !.repeated = Repeats(self, labelClasses, addMissing, removeObsolete),
                        !.firstMap =
                            IF Repeats(self, labelClasses, addMissing, removeObsolete)
                            THEN call.preMap ELSE EmptyDict]
        IN  /\ Idle
            /\ avg' = NoAvg
            /\ IF ~addMissing \/ ~removeObsolete
               THEN /\ call' = frame
                    /\ ret' = Ret("updateModel", "return")
               ELSE /\ call' = [frame EXCEPT
                                  !.pc = "add",
                                  !.classes_missing = labelClasses \ current,
                                  !.classes_obsolete = current \ (labelClasses \ current)]
                    /\ ret' = Ret("updateModel", "running")
            /\ UNCHANGED <<dicts, models, ckpts, nAvg>>

\* l. 57-63: the early return and the two differences of key sets
UpdateModelEnter ==
    \E self \in 1..Len(models), labelClasses \in SUBSET Names,
       addMissing \in BOOLEAN, removeObsolete \in BOOLEAN :
        LET current == Keys(dicts[models[self].labelclassMap])
            frame == [IdleCall EXCEPT
                        !.self = self,
                        !.labelClasses = labelClasses,
                        !.addMissing = addMissing,
                        !.removeObsolete = removeObsolete,
                        !.preMap = dicts[models[self].labelclassMap],
                        !.preWeight = models[self].params["classifier.weight"],
                        !.preBias = models[self].params["classifier.bias"],
                        !.repeated = Repeats(self, labelClasses, addMissing, removeObsolete),
                        !.firstMap =
                            IF Repeats(self, labelClasses, addMissing, removeObsolete)
                            THEN call.preMap ELSE EmptyDict]
        IN  /\ Idle
            /\ avg' = NoAvg
            /\ IF ~addMissing \/ ~removeObsolete
               THEN /\ call' = frame
                    /\ ret' = Ret("updateModel", "return")
               ELSE /\ call' = [frame EXCEPT
                                  !.pc = "add",
                                  !.classes_missing = labelClasses \ current,
                                  !.classes_obsolete = current \ labelClasses]
                    /\ ret' = Ret("updateModel", "running")
            /\ UNCHANGED <<dicts, models, ckpts, nAvg>>

\* l. 65-97: self.numAnchors (l. 72) is an attribute no code of the class
\* sets, so the add branch raises AttributeError before it changes anything
AddNeurons ==
    /\ call.pc = "add"
    /\ IF call.addMissing /\ call.classes_missing # {}
       THEN /\ call' = [call EXCEPT !.pc = "idle"]
            /\ ret' = Ret("updateModel", "raise")
       ELSE /\ call' = [call EXCEPT !.pc = "remove"]
            /\ UNCHANGED ret
    /\ UNCHANGED <<dicts, models, ckpts, avg, nAvg>>

\* l. 100-102
RemoveBegin ==
    /\ call.pc = "remove"
    /\ IF call.removeObsolete /\ call.classes_obsolete # {}
       THEN /\ call' = [call EXCEPT
                          !.pc = "removeLoop",
                          !.todo = call.classes_obsolete,
                          !.weights = models[call.self].params["classifier.weight"],
                          !.biases = models[call.self].params["classifier.bias"]]
            /\ UNCHANGED ret
       ELSE /\ call' = [call EXCEPT !.pc = "idle"]
            /\ ret' = Ret("updateModel", "return")
    /\ UNCHANGED <<dicts, models, ckpts, avg, nAvg>>

\* the deletion without the shift of the larger indices
ShiftDownOmitted(d, classname) == [key \in Keys(d) \ {classname} |-> d[key]]

\* a shift of every remaining index that is not 0, whatever index was deleted
ShiftDownAll(d, classname) ==
    [key \in Keys(d) \ {classname} |-> IF d[key] > 0 THEN d[key] - 1 ELSE d[key]]

\* the shift without the del of l. 112
ShiftDownWithoutDel(d, classname) ==
    LET classIdx == d[classname]
    IN  [key \in Keys(d) |-> IF d[key] > classIdx THEN d[key] - 1 ELSE d[key]]

\* l. 111-115: del, then every larger index moves down by one
ShiftDown(d, classname) ==
    LET classIdx == d[classname]
    IN  [key \in Keys(d) \ {classname} |->
            IF d[key] > classIdx THEN d[key] - 1 ELSE d[key]]

\* l. 104-115, one turn of the loop; a set is iterated in any order
RemoveOne ==
    \E classname \in call.todo :
        LET lcm == models[call.self].labelclassMap
            classIdx == dicts[lcm][classname]
        IN  /\ call.pc = "removeLoop"
            /\ call' = [call EXCEPT
                          !.todo = @ \ {classname},
                          !.weights = DropRow(@, classIdx),
                          !.biases = DropRow(@, classIdx)]
            /\ dicts' = [dicts EXCEPT ![lcm] = ShiftDown(@, classname)]
            /\ UNCHANGED <<models, ckpts, avg, ret, nAvg>>

\* l. 117-121
RemoveApply ==
    /\ call.pc = "removeLoop"
    /\ call.todo = {}
    /\ models' = [models EXCEPT
                    ![call.self].params = [@ EXCEPT
                        !["classifier.weight"] = call.weights,
                        !["classifier.bias"] = call.biases]]
    /\ call' = [call EXCEPT !.pc = "idle"]
    /\ ret' = Ret("updateModel", "return")
    /\ UNCHANGED <<dicts, ckpts, avg, nAvg>>

\* The surgery: models on their own or on shared dicts, the records saved
\* from them and loaded again, and updateModel step by step.  The records
\* only alias the dicts here, so one fewer of them is kept than below.
Next ==
    \/ ConstructOnNewDict(SurgeryInputs)
    \/ ConstructOnSharedDict(SurgeryInputs)
    \/ GetStateDict(MaxCkpts - 1)
    \/ LoadModel
    \/ UpdateModelEnter
    \/ AddNeurons
    \/ RemoveBegin
    \/ RemoveOne
    \/ RemoveApply

Spec == Init /\ [][Next]_vars

\* The averaging: models of several architectures, sizes and initial values,
\* the records saved from them and averageStateDicts on lists of the records.
NextAverage ==
    \/ ConstructOnNewDict(AverageInputs)
    \/ GetStateDict(MaxCkpts)
    \/ Average

SpecAverage == Init /\ [][NextAverage]_vars

\* The averaging of files: the records saved from models of several
\* architectures, sizes and initial values, and averageEpochs on lists of
\* the files that hold them.
NextEpochs ==
    \/ ConstructOnNewDict(AverageInputs)
    \/ GetStateDict(MaxCkpts)
    \/ AverageFromFiles

SpecEpochs == Init /\ [][NextEpochs]_vars

\* The loading: records saved from models of several architectures, records
\* without some fields or of other architectures, and loadFromStateDict.
LoadInputs ==
    {<<PrefixDict(2), "resnet50", TRUE, 1>>, <<PrefixDict(1), "resnet50", FALSE, 3>>,
     <<PrefixDict(2), "resnet18", FALSE, 3>>}

NextLoad ==
    \/ ConstructOnNewDict(LoadInputs)
    \/ GetStateDict(MaxCkpts)
    \/ ForeignRecord
    \/ LoadModel

SpecLoad == Init /\ [][NextLoad]_vars

\* ------------------------------------------------------------ properties
MapOf(m) == dicts[models[m].labelclassMap]
WeightOf(m) == models[m].params["classifier.weight"]
BiasOf(m) == models[m].params["classifier.bias"]
Rows(t) == t.shape[1]
Size(d) == Cardinality(Keys(d))

\* an updateModel call has just ended (by return or by an exception)
UpdateEnded == call.pc = "idle" /\ call.self # 0
\* ... having gone past the early return of l. 57-58
UpdateRan == UpdateEnded /\ call.addMissing /\ call.removeObsolete

\* C1: every label-class dict has exactly the indices 0..N-1, N its size,
\* in every state: between calls and at every point inside an updateModel
\* call (after the add phase, after each single removal and its re-indexing)
C1_Contiguity ==
    \A i \in 1..Len(dicts) : Values(dicts[i]) = 0..(Size(dicts[i]) - 1)

\* C1 witness: inside the removal loop, after a class of index 0 was removed
\* and the others were re-indexed, with a further class still to remove
C1_Witness ==
    /\ call.pc = "removeLoop"
    /\ call.todo # {}
    /\ \E c \in call.classes_obsolete \ call.todo : call.preMap[c] = 0
    /\ Size(MapOf(call.self)) = 2

\* C2: for every model on which no updateModel call is in progress, the rows
\* of the classifier weight, the length of the bias and the size of the
\* model's label-class map are equal
C2_HeadMatchesMap ==
    \A m \in 1..Len(models) :
        (call.pc = "idle" \/ call.self # m) =>
            /\ Rows(WeightOf(m)) = Size(MapOf(m))
            /\ Rows(BiasOf(m)) = Size(MapOf(m))
            /\ Len(WeightOf(m).data) = Len(BiasOf(m).data)

\* C3: when an updateModel call has ended, every class that was in the map
\* before the call and still is has, at its new index, the weight row and the
\* bias entry that were at its old index before the call
C3_RowsFollowClasses ==
    UpdateEnded =>
        \A c \in Keys(call.preMap) \cap Keys(MapOf(call.self)) :
            LET old == call.preMap[c] + 1
                new == MapOf(call.self)[c] + 1
            IN  /\ new <= Len(WeightOf(call.self).data)
                /\ new <= Len(BiasOf(call.self).data)
                /\ WeightOf(call.self).data[new] = call.preWeight.data[old]
                /\ BiasOf(call.self).data[new] = call.preBias.data[old]

\* C3 witness: 'dog' removed from {cat:0, dog:1, bird:2}, giving
\* {cat:0, bird:1}
C3_Witness ==
    /\ UpdateEnded
    /\ ret.outcome = "return"
    /\ call.preMap = PrefixDict(3)
    /\ call.classes_obsolete = {"dog"}
    /\ MapOf(call.self) = ("cat" :> 0) @@ ("bird" :> 1)
    /\ Rows(WeightOf(call.self)) = 2

\* C4: an updateModel call that is to add k >= 1 missing classes gets through
\* its add phase without an exception, and after the add phase the map and the
\* head have k more entries, the new classes holding the indices N..N+k-1
C4_AddStepCompletes ==
    (call.self # 0 /\ call.pc # "add" /\ call.addMissing /\ call.removeObsolete
        /\ call.classes_missing # {}) =>
        /\ ret.outcome # "raise"
        /\ call.pc = "remove" =>
            LET N == Size(call.preMap)
                k == Cardinality(call.classes_missing)
            IN  /\ Size(MapOf(call.self)) = N + k
                /\ Rows(WeightOf(call.self)) = Rows(call.preWeight) + k
                /\ Rows(BiasOf(call.self)) = Rows(call.preBias) + k
                /\ call.classes_missing \subseteq Keys(MapOf(call.self))
                /\ {MapOf(call.self)[c] : c \in call.classes_missing} = N..(N + k - 1)

C8_RecordsUntouched ==
    [][(call.pc # "idle" \/ call'.pc # "idle") =>
          \A c \in 1..Len(ckpts) :
              /\ ckpts'[c].model_state = ckpts[c].model_state
              /\ dicts'[ckpts'[c].labelclassMap] = dicts[ckpts[c].labelclassMap]]_vars

\* ----------------------------------------------- properties of averaging
\* the names of named_parameters() for an architecture
ParamNames(featureExtractor) ==
    DOMAIN FeParamShapes(featureExtractor) \cup {"classifier.weight", "classifier.bias"}

\* every record of the list has the same names with the same shapes
Compatible(cs, stateDicts) ==
    \A i, j \in 1..Len(stateDicts) :
        LET a == cs[stateDicts[i]].model_state
            b == cs[stateDicts[j]].model_state
        IN  /\ DOMAIN a = DOMAIN b
            /\ \A key \in DOMAIN a : a[key].shape = b[key].shape

\* the sum of a sequence of rationals as a fraction, not in lowest terms
RECURSIVE FracSum(_)
FracSum(qs) ==
    IF qs = <<>> THEN <<0, 1>>
    ELSE LET r == FracSum(Tail(qs))
         IN  <<Head(qs)[1] * r[2] + r[1] * Head(qs)[2], Head(qs)[2] * r[2]>>

\* x = (sum of qs) / Len(qs)
IsMeanOf(x, qs) ==
    LET sum == FracSum(qs)
    IN  x[1] * (sum[2] * Len(qs)) = sum[1] * x[2]

\* the orderings of a list
Perms(list) ==
    LET k == Len(list)
    IN  {[i \in 1..k |-> list[pi[i]]] :
            pi \in {f \in [1..k -> 1..k] : \A a, b \in 1..k : a # b => f[a] # f[b]}}

AvgReturned == avg.called /\ avg.ok

\* C6: when averageStateDicts has returned for a list of k records with the
\* same names and shapes, every named parameter of the result is, element by
\* element, the sum of that parameter over the k records divided by k; for k
\* copies of one record it is that record's parameter
C6_ResultIsMean ==
    (AvgReturned /\ Compatible(avg.pre, avg.stateDicts)) =>
        LET k     == Len(avg.stateDicts)
            in(j) == avg.pre[avg.stateDicts[j]].model_state
            res   == ckpts[avg.result].model_state
        IN  \A key \in ParamNames(avg.pre[avg.stateDicts[1]].featureExtractor) :
                /\ key \in DOMAIN res
                /\ res[key].shape = in(1)[key].shape
                /\ Len(res[key].data) = Len(in(1)[key].data)
                /\ \A i \in 1..Len(res[key].data) :
                       IsMeanOf(res[key].data[i], [j \in 1..k |-> in(j)[key].data[i]])
                /\ (\A j \in 1..k : in(j)[key] = in(1)[key]) => res[key] = in(1)[key]

\* C6 witness: two records of equal label maps with w = [1, 3] and
\* w = [3, 5]; the result has w = [2, 4]
C6_Witness ==
    /\ AvgReturned
    /\ Len(avg.stateDicts) = 2
    /\ avg.pre[avg.stateDicts[1]].model_state["classifier.weight"].data = <<Rat(1), Rat(3)>>
    /\ avg.pre[avg.stateDicts[2]].model_state["classifier.weight"].data = <<Rat(3), Rat(5)>>
    /\ ckpts[avg.result].model_state["classifier.weight"].data = <<Rat(2), Rat(4)>>

\* C7: when averageStateDicts has returned, every record of its list is as
\* it was before the call, and the record returned is none of them
C7_InputsUntouched ==
    AvgReturned =>
        /\ \A j \in 1..Len(avg.stateDicts) :
               ckpts[avg.stateDicts[j]] = avg.pre[avg.stateDicts[j]]
        /\ \A j \in 1..Len(avg.stateDicts) : avg.result # avg.stateDicts[j]

\* C9: averageStateDicts on a list whose records do not all have the same
\* names and shapes ends with an exception
C9_MismatchRaises ==
    (avg.called /\ avg.stateDicts # <<>> /\ ~Compatible(avg.pre, avg.stateDicts)) =>
        ~avg.ok

\* C10: when averageStateDicts has returned for a list of records with the
\* same names and shapes, the call on any other ordering of the list returns
\* too, and with the same contents for every entry of model_state
C10_OrderIndependent ==
    (AvgReturned /\ Compatible(avg.pre, avg.stateDicts)) =>
        \A p \in Perms(avg.stateDicts) :
            LET other == AverageStateDicts(dicts, avg.pre, p)
            IN  /\ other.ok
                /\ other.ckpts[p[Len(p)]].model_state = ckpts[avg.result].model_state

\* C11: when averageStateDicts has returned, the record it returns has the
\* labelclassMap (the same dict object), the featureExtractor and the
\* pretrained of the last record of the list as they were before the call,
\* whatever the other records of the list hold
C11_LastMetadata ==
    AvgReturned =>
        LET last == avg.pre[avg.stateDicts[Len(avg.stateDicts)]]
        IN  /\ ckpts[avg.result].labelclassMap = last.labelclassMap
            /\ ckpts[avg.result].featureExtractor = last.featureExtractor
            /\ ckpts[avg.result].pretrained = last.pretrained

\* C11 witness: a resnet34 record followed by a resnet18 record of another
\* dict and another pretrained; the result is a resnet18 record
C11_Witness ==
    /\ AvgReturned
    /\ Len(avg.stateDicts) = 2
    /\ avg.pre[avg.stateDicts[1]].featureExtractor = "resnet34"
    /\ avg.pre[avg.stateDicts[2]].featureExtractor = "resnet18"
    /\ avg.pre[avg.stateDicts[1]].pretrained # avg.pre[avg.stateDicts[2]].pretrained
    /\ avg.pre[avg.stateDicts[1]].labelclassMap # avg.pre[avg.stateDicts[2]].labelclassMap
    /\ ckpts[avg.result].featureExtractor = "resnet18"
    /\ "fe.4.2.conv1.weight" \in DOMAIN ckpts[avg.result].model_state

\* what averageStateDicts and loadFromStateDict give on the records loaded
\* from statePaths, one torch.load per path, in the order of the list
RECURSIVE LoadAll(_, _, _)
LoadAll(heap, cs, statePaths) ==
    IF statePaths = <<>> THEN [heap |-> heap, cs |-> cs, list |-> <<>>]
    ELSE LET file == TorchLoad(heap, cs, Head(statePaths))
             rest == LoadAll(file.heap, Append(cs, file.stateDict), Tail(statePaths))
         IN  [heap |-> rest.heap, cs |-> rest.cs, list |-> <<Len(cs) + 1>> \o rest.list]

AverageInMemory(heap, cs, statePaths) ==
    LET loaded   == LoadAll(heap, cs, statePaths)
        averaged == AverageStateDicts(loaded.heap, loaded.cs, loaded.list)
        model    == LoadFromStateDict(loaded.heap, averaged.ckpts[averaged.result])
    IN  IF averaged.ok /\ model.ok
        THEN [ok |-> TRUE, heap |-> loaded.heap, model |-> model.model]
        ELSE [ok |-> FALSE, heap |-> loaded.heap, model |-> 0]

EpochsEnded == ret.op = "averageEpochs" /\ avg.stateDicts # <<>>

\* C12: for every list of one or more paths, averageEpochs returns iff
\* loading the files, averageStateDicts on the loaded records in the same
\* order and loadFromStateDict on its result return, and then the two models
\* have the same parameters and buffers, the same featureExtractor and
\* pretrained and label-class maps of the same contents, those of the file
\* at the last path
C12_FilesAsInMemory ==
    EpochsEnded =>
        LET mem  == AverageInMemory(dicts, avg.pre, avg.stateDicts)
            last == avg.pre[avg.stateDicts[Len(avg.stateDicts)]]
        IN  /\ avg.ok = mem.ok
            /\ avg.ok =>
                   LET model == models[avg.result]
                   IN  /\ model.params = mem.model.params
                       /\ model.buffers = mem.model.buffers
                       /\ model.featureExtractor = mem.model.featureExtractor
                       /\ model.pretrained = mem.model.pretrained
                       /\ dicts[model.labelclassMap] = mem.heap[mem.model.labelclassMap]
                       /\ model.featureExtractor = last.featureExtractor
                       /\ model.pretrained = last.pretrained
                       /\ dicts[model.labelclassMap] = dicts[last.labelclassMap]

\* C12 witness: the files of a pretrained record with w = [1, 3] and of a
\* record that is not pretrained with w = [3, 5]; the model returned has
\* w = [2, 4] and is not pretrained
C12_Witness ==
    /\ EpochsEnded
    /\ avg.ok
    /\ Len(avg.stateDicts) = 2
    /\ avg.pre[avg.stateDicts[1]].pretrained
    /\ avg.pre[avg.stateDicts[1]].model_state["classifier.weight"].data = <<Rat(1), Rat(3)>>
    /\ avg.pre[avg.stateDicts[2]].model_state["classifier.weight"].data = <<Rat(3), Rat(5)>>
    /\ ~models[avg.result].pretrained
    /\ WeightOf(avg.result).data = <<Rat(2), Rat(4)>>

\* -------------------------------------------- properties of updateModel
\* the classes a call has to add and to remove, from its arguments
MissingOf(c) == c.labelClasses \ Keys(c.preMap)
ObsoleteOf(c) == Keys(c.preMap) \ c.labelClasses

\* C13: when an updateModel call has ended, each flag has decided its own
\* operation only: with addMissing every missing class is in the map and has
\* a row, whatever removeObsolete is; with removeObsolete no obsolete class
\* is in the map and its row is gone, whatever addMissing is; without
\* addMissing no class was added and without removeObsolete none was removed
C13_FlagsIndependent ==
    UpdateEnded =>
        LET now  == Keys(MapOf(call.self))
            kept == IF call.removeObsolete THEN Keys(call.preMap) \ ObsoleteOf(call)
                    ELSE Keys(call.preMap)
            new  == IF call.addMissing THEN MissingOf(call) ELSE {}
        IN  /\ ret.outcome = "return"
            /\ now = kept \cup new
            /\ Rows(WeightOf(call.self)) = Cardinality(kept \cup new)
            /\ Rows(BiasOf(call.self)) = Cardinality(kept \cup new)

\* C14: at every point of an updateModel call whose labelClasses has the
\* keys of the map the model had when the call began, and when the call has
\* ended, the map, the weight and the bias of the model are those of the
\* beginning, and the call does not raise, whatever the two flags are
C14_EqualKeysNoChange ==
    (call.self # 0 /\ call.labelClasses = Keys(call.preMap)) =>
        /\ ret.outcome # "raise"
        /\ MapOf(call.self) = call.preMap
        /\ WeightOf(call.self) = call.preWeight
        /\ BiasOf(call.self) = call.preBias

\* C14 witness: a call with both flags and the two keys of the model's map
\* has gone through its add and remove steps and returned
C14_Witness ==
    /\ UpdateRan
    /\ ret.outcome = "return"
    /\ call.preMap = PrefixDict(2)
    /\ call.labelClasses = {"cat", "dog"}
    /\ Rows(WeightOf(call.self)) = 2

\* -------------------------------------- properties of loadFromStateDict
LoadEnded == ret.op = "loadFromStateDict"
Loaded == ckpts[ret.stateDict]

\* the record with the documented defaults in the place of absent fields
WithDefaults(stateDict) ==
    [f \in DOMAIN stateDict \cup {"featureExtractor", "pretrained"} |->
        IF f \in DOMAIN stateDict THEN stateDict[f]
        ELSE IF f = "featureExtractor" THEN "resnet50" ELSE TRUE]

\* C15: when loadFromStateDict has ended on a record, it has ended as on the
\* record with 'resnet50' and True in the place of an absent
\* 'featureExtractor' and 'pretrained' (it returns iff that load returns, so
\* the absence itself raises nothing), a model returned for a record without
\* 'featureExtractor' is a resnet50 with a head of 2048 features, one for a
\* record without 'pretrained' is pretrained, and for a record whose
\* featureExtractor is not a key of in_features it has raised and returned
\* no model
C15_DefaultsAndUnknown ==
    LoadEnded =>
        /\ \E seed \in Seeds :
               LET full == LoadFromStateDictSeeded(dicts, WithDefaults(Loaded), seed)
               IN  /\ (ret.outcome = "return") = full.ok
                   /\ full.ok => models[ret.model] = full.model
        /\ ret.outcome = "return" =>
               LET model == models[ret.model]
               IN  /\ "featureExtractor" \notin DOMAIN Loaded =>
                          /\ model.featureExtractor = "resnet50"
                          /\ DOMAIN StateDictOf(model) =
                                 DOMAIN StateDictOf(NewModel(dicts, model.labelclassMap,
                                                             "resnet50", TRUE, 1))
                          /\ WeightOf(ret.model).shape[2] = 2048
                   /\ "pretrained" \notin DOMAIN Loaded => model.pretrained
        /\ ("featureExtractor" \in DOMAIN Loaded
                /\ Loaded.featureExtractor \notin DOMAIN in_features) =>
               /\ ret.outcome = "raise"
               /\ ret.model = 0

\* C15 witness: the record of a resnet50 model that was not pretrained,
\* without 'featureExtractor' and 'pretrained', has been loaded: the model
\* returned is a pretrained resnet50 with the parameters of the record
C15_Witness ==
    /\ LoadEnded
    /\ ret.outcome = "return"
    /\ DOMAIN Loaded = {"model_state", "labelclassMap"}
    /\ models[ret.model].featureExtractor = "resnet50"
    /\ models[ret.model].pretrained
    /\ WeightOf(ret.model) = Loaded.model_state["classifier.weight"]
    /\ WeightOf(ret.model).data = <<Rat(3)>>

\* ---------------------------------------- properties of the add step
RAbs(p) == <<Abs(p[1]), p[2]>>
RSub(p, q) == RAdd(p, <<-q[1], q[2]>>)
RLeq(p, q) == p[1] * q[2] <= q[1] * p[2]

\* sum of |w| over row i of the weight (every element of the row being the
\* representative one) plus |b| of entry i
Mass(weights, biases, i) ==
    RAdd(Norm(<<weights.shape[2] * Abs(weights.data[i][1]), weights.data[i][2]>>),
         RAbs(biases.data[i]))

\* the rows of minimal mass
Templates(weights, biases) ==
    {i \in 1..Len(weights.data) :
        \A j \in 1..Len(weights.data) :
            RLeq(Mass(weights, biases, i), Mass(weights, biases, j))}

\* epsilon / 2 with epsilon = 0.01
HalfEpsilon == <<1, 200>>

\* C16: an updateModel call that has missing classes to add to a head that
\* is not empty gets through its add step, and after the add step every
\* missing class has a row and a bias entry that differ by at most 0.005
\* from those of one row of minimal mass of the head as it was before the
\* call, the same row for every missing class
C16_TemplatePlusNoise ==
    (call.self # 0 /\ call.pc # "add" /\ call.addMissing /\ call.removeObsolete
        /\ call.classes_missing # {} /\ Rows(call.preWeight) > 0) =>
        /\ ret.outcome # "raise"
        /\ call.pc = "remove" =>
            \E t \in Templates(call.preWeight, call.preBias) :
                \A c \in call.classes_missing :
                    /\ c \in Keys(MapOf(call.self))
                    /\ LET new == MapOf(call.self)[c] + 1
                       IN  /\ new <= Len(WeightOf(call.self).data)
                           /\ new <= Len(BiasOf(call.self).data)
                           /\ RLeq(RAbs(RSub(WeightOf(call.self).data[new],
                                              call.preWeight.data[t])), HalfEpsilon)
                           /\ RLeq(RAbs(RSub(BiasOf(call.self).data[new],
                                              call.preBias.data[t])), HalfEpsilon)

\* C17: when an updateModel call with both flags has returned, the keys of
\* the model's map are the keys of labelClasses; and at every point of a call
\* that repeats it at once with the same labelClasses, and after that call,
\* the map, the weight and the bias are what the first call left, and the
\* repeated call does not raise
C17_ReconcileIdempotent ==
    /\ (UpdateRan /\ ret.outcome = "return") =>
           Keys(MapOf(call.self)) = call.labelClasses
    /\ (call.self # 0 /\ call.repeated) =>
           /\ ret.outcome # "raise"
           /\ Keys(call.preMap) = call.labelClasses
           /\ MapOf(call.self) = call.preMap
           /\ WeightOf(call.self) = call.preWeight
           /\ BiasOf(call.self) = call.preBias

\* C17 witness: updateModel({cat, bird}) on {cat:0, dog:1, bird:2} has
\* returned, and so has the same call made again
C17_Witness ==
    /\ UpdateRan
    /\ ret.outcome = "return"
    /\ call.repeated
    /\ call.firstMap = PrefixDict(3)
    /\ call.labelClasses = {"cat", "bird"}
    /\ MapOf(call.self) = ("cat" :> 0) @@ ("bird" :> 1)
    /\ Rows(WeightOf(call.self)) = 2

\* C18: between calls, for every model, loadFromStateDict on the record
\* getStateDict gives for it returns, and the model it returns has a map of
\* the same contents and the same classifier weight and bias
C18_RoundTrip ==
    Idle =>
        \A m \in 1..Len(models) :
            LET loaded == LoadFromStateDict(dicts, StateDictRecord(models[m]))
            IN  /\ loaded.ok
                /\ dicts[loaded.model.labelclassMap] = MapOf(m)
                /\ loaded.model.params["classifier.weight"] = WeightOf(m)
                /\ loaded.model.params["classifier.bias"] = BiasOf(m)

====
